---- MODULE Spec2Model ----
(***************************************************************************)
(* A model of cli/http_cache.rs: the name derivation (base_url_to_filename, *)
(* url_to_filename) and the HttpCache store (new, get, set) over a          *)
(* filesystem of directories and files.                                     *)
(*                                                                          *)
(* Text is modelled as it is stored: a string is the sequence of its bytes, *)
(* each byte written as a one-character TLA+ string ("a", "/", ...); the    *)
(* two bytes of a non-ASCII character are written "C3" and "A9".  A path is *)
(* a sequence of components, each component a string.  An Option is a       *)
(* sequence of length 0 (None) or 1 (Some).                                 *)
(***************************************************************************)
EXTENDS Integers, Sequences, FiniteSets, TLC

VARIABLES
    dirs,       \* the directories that exist (absolute paths)
    files,      \* the regular files that exist: path -> bytes
    stores,     \* the HttpCache values constructed so far (their location)
    last,       \* the call made last, with its arguments and its result
    before,     \* Some(call) when the call made just before `last` was a set
                \* that returned Ok or a url_to_filename that returned
    lastSet,    \* per store and URL, Some(arguments) of the latest set that returned Ok
    latest,     \* the same per store and URL without its fragment
    setCalled,  \* the <<store, URL>> pairs set has been called with
    failed,     \* whether some set has returned an error
    nsets,      \* number of set calls made
    nfaults,    \* number of I/O faults the environment has caused
    step,       \* the step at which the set made last returned ("none" when
                \* the call made last was not a set)
    pc,         \* per thread, where it stands in the call it is making
    args,       \* per thread, the call it is making or made last
    ret,        \* per thread, what that call returned
    opened,     \* per thread, whether its get has opened the content file
    wrote,      \* for the content and the headers file of the threads' URL,
                \* Some(arguments) of the set call whose write is in the file
    issued,     \* the arguments of the set calls the threads have made
    torn,       \* whether a write of a thread failed part way
    cache,      \* per program variable, Some(location) of the HttpCache it holds
    used        \* the program variables the call made last (now) and the one
                \* before it (prev) were made through

\* The variables of the threads.
concvars == <<pc, args, ret, opened, wrote, issued, torn>>

\* The variables of a program that holds several stores.
storevars == <<cache, used>>

vars == <<dirs, files, stores, last, before, lastSet, latest, setCalled, failed, nsets, nfaults,
          step, concvars, storevars>>

(***************************************************************************)
(* Bounds of the model.                                                     *)
(***************************************************************************)
MaxSets == 2
MaxFaults == 1

None == <<>>
Some(x) == <<x>>

(***************************************************************************)
(* Text.                                                                    *)
(***************************************************************************)
Http == <<"h", "t", "t", "p">>
Https == <<"h", "t", "t", "p", "s">>
Ftp == <<"f", "t", "p">>

DigitChars == <<"0", "1", "2", "3", "4", "5", "6", "7", "8", "9">>

\* format!("{}", port): the decimal digits of a u16, no sign, no padding.
RECURSIVE FormatPort(_)
FormatPort(n) ==
    IF n < 10 THEN <<DigitChars[n + 1]>>
    ELSE FormatPort(n \div 10) \o <<DigitChars[(n % 10) + 1]>>

(***************************************************************************)
(* Url: the parsed URL the functions receive.  UrlParse is the part of      *)
(* Url::parse that the code relies on: a port equal to the scheme's default *)
(* is dropped, so that Url::port() is None for it.                          *)
(***************************************************************************)
DefaultPort(scheme) ==
    IF scheme = Http THEN Some(80)
    ELSE IF scheme = Https THEN Some(443)
    ELSE IF scheme = Ftp THEN Some(21)
    ELSE None

UrlParse(raw) ==
    [raw EXCEPT !.port = IF raw.port = DefaultPort(raw.scheme) THEN None ELSE raw.port]

StripFragment(url) == [url EXCEPT !.fragment = None]

NoUrl == [scheme |-> <<>>, host |-> <<>>, port |-> None, path |-> <<>>,
          query |-> None, fragment |-> None]

(***************************************************************************)
(* crate::checksum::gen: the hex digest of the bytes.  The digest is taken  *)
(* as collision free: it is modelled by the hex encoding of the bytes       *)
(* themselves, which is deterministic, injective and made of hex digits.    *)
(***************************************************************************)
HexOf(c) ==
    CASE c = "/" -> <<"2", "f">>
      [] c = "?" -> <<"3", "f">>
      [] c = "#" -> <<"2", "3">>
      [] c = "x" -> <<"7", "8">>
      [] c = "y" -> <<"7", "9">>
      [] c = "q" -> <<"7", "1">>
      [] c = "f" -> <<"6", "6">>
      [] OTHER -> <<"0", "0">>

RECURSIVE checksum_gen(_)
checksum_gen(bytes) ==
    IF bytes = <<>> THEN <<>>
    ELSE HexOf(Head(bytes)) \o checksum_gen(Tail(bytes))

(***************************************************************************)
(* base_url_to_filename and url_to_filename.  A result is                   *)
(* [panic |-> BOOLEAN, path |-> PathBuf]: unimplemented!() panics.          *)
(***************************************************************************)
PortToken == <<"_", "P", "O", "R", "T">>

\* A base_url_to_filename that leaves the port out of the host segment.
base_url_to_filename_NoPort(url) ==
    IF url.scheme = Http \/ url.scheme = Https
    THEN [panic |-> FALSE, path |-> <<url.scheme, url.host>>]
    ELSE [panic |-> TRUE, path |-> <<url.scheme>>]

base_url_to_filename(url) ==
    LET scheme == url.scheme
        out == <<scheme>>
    IN  IF scheme = Http \/ scheme = Https
        THEN LET host == url.host
                 host_port == IF url.port # None
                              THEN host \o PortToken \o FormatPort(url.port[1])
                              ELSE host
             IN  [panic |-> FALSE, path |-> Append(out, host_port)]
        ELSE [panic |-> TRUE, path |-> out]

\* A rest string that takes the fragment in.
RestStr_WithFragment(url) ==
    (IF url.query # None THEN url.path \o <<"?">> \o url.query[1] ELSE url.path)
    \o (IF url.fragment # None THEN <<"#">> \o url.fragment[1] ELSE <<>>)

RestStr(url) ==
    IF url.query # None THEN url.path \o <<"?">> \o url.query[1] ELSE url.path

\* A url_to_filename that hashes the whole of the URL after the host.
url_to_filename_HashFragment(url) ==
    LET base == base_url_to_filename(url)
        hashed_filename == checksum_gen(RestStr_WithFragment(url))
    IN  IF base.panic THEN base
        ELSE [panic |-> FALSE, path |-> Append(base.path, hashed_filename)]

url_to_filename(url) ==
    LET base == base_url_to_filename(url)
        rest_str == RestStr(url)
        hashed_filename == checksum_gen(rest_str)
    IN  IF base.panic THEN base
        ELSE [panic |-> FALSE, path |-> Append(base.path, hashed_filename)]

(***************************************************************************)
(* Paths (std::path).                                                       *)
(***************************************************************************)
join(base, rel) == base \o rel

parent(path) == SubSeq(path, 1, Len(path) - 1)

\* The position of the last "." of a file name, 0 when it has none.
RECURSIVE LastDot(_, _)
LastDot(name, i) ==
    IF i = 0 THEN 0
    ELSE IF name[i] = "." THEN i
    ELSE LastDot(name, i - 1)

\* Path::with_extension: the file name's stem (the name up to its last ".",
\* the whole name when it has none or only a leading one), ".", the extension.
with_extension(path, ext) ==
    LET name == path[Len(path)]
        dot == LastDot(name, Len(name))
        stem == IF dot <= 1 THEN name ELSE SubSeq(name, 1, dot - 1)
    IN  Append(parent(path), stem \o <<".">> \o ext)

HeadersExt == <<"h", "e", "a", "d", "e", "r", "s", ".", "j", "s", "o", "n">>

Prefixes(path) == {SubSeq(path, 1, k) : k \in 0..Len(path)}

(***************************************************************************)
(* The filesystem primitives.  Each returns the set of its possible         *)
(* outcomes; `fault` says whether the environment may make a mutating call  *)
(* fail (permissions, a full disk).                                         *)
(***************************************************************************)
\* std::fs::create_dir_all: a no-op on a directory that exists; an error when
\* a component is a regular file; otherwise it makes the missing directories
\* from the top down, and a fault may stop it after any number of them.
create_dir_all(ds, fs, path, fault) ==
    IF path \in ds THEN {[kind |-> "Ok", dirs |-> ds]}
    ELSE IF \E p \in Prefixes(path) : p \in DOMAIN fs
    THEN {[kind |-> "IoOther", dirs |-> ds]}
    ELSE {[kind |-> "Ok", dirs |-> ds \cup Prefixes(path)]}
         \cup (IF fault
               THEN {[kind |-> "IoOther",
                      dirs |-> ds \cup {p \in Prefixes(path) : Len(p) <= k}]
                       : k \in 0..(Len(path) - 1)}
               ELSE {})

\* deno_fs::write_file(path, data, 0o666): open with create and truncate, set
\* the permissions, write all the bytes.  A fault at the open leaves the file as
\* it was; a fault after it leaves the file truncated to a strict prefix of
\* the data (to nothing when the data is empty).
write_file(ds, fs, path, data, fault) ==
    IF parent(path) \notin ds \/ path \in ds
    THEN {[kind |-> "NotFound", files |-> fs]}
    ELSE {[kind |-> "Ok", files |-> (path :> data) @@ fs]}
         \cup (IF fault
               THEN {[kind |-> "IoOther", files |-> fs]}
                    \cup {[kind |-> "IoOther",
                           files |-> (path :> SubSeq(data, 1, k)) @@ fs]
                            : k \in 0..(IF Len(data) = 0 THEN 0 ELSE Len(data) - 1)}
               ELSE {})

\* File::open: the handle gives the bytes of the file.
File_open(fs, path) ==
    IF path \in DOMAIN fs
    THEN [kind |-> "Ok", bytes |-> fs[path]]
    ELSE [kind |-> "NotFound", bytes |-> <<>>]

\* Whether the bytes are UTF-8: a lead byte is followed by its continuation
\* byte, and a continuation byte stands nowhere else.
RECURSIVE Utf8Valid(_)
Utf8Valid(bytes) ==
    IF bytes = <<>> THEN TRUE
    ELSE IF Head(bytes) = "C3"
         THEN Len(bytes) >= 2 /\ bytes[2] = "A9" /\ Utf8Valid(Tail(Tail(bytes)))
    ELSE IF Head(bytes) = "A9" THEN FALSE
    ELSE Utf8Valid(Tail(bytes))

\* std::fs::read_to_string: NotFound for a missing file, InvalidData for bytes
\* that are not UTF-8.
read_to_string(fs, path) ==
    IF path \notin DOMAIN fs THEN [kind |-> "NotFound", bytes |-> <<>>]
    ELSE IF ~Utf8Valid(fs[path]) THEN [kind |-> "InvalidData", bytes |-> <<>>]
    ELSE [kind |-> "Ok", bytes |-> fs[path]]

(***************************************************************************)
(* serde_json on HeadersMap = HashMap<String, String>.  A map is a function *)
(* from its keys to their values.                                           *)
(***************************************************************************)
Quote == "\""
Backslash == "\\"

EmptyMap == <<>>

\* The contents of a JSON string: a quote or a backslash is escaped.
RECURSIVE Escape(_)
Escape(str) ==
    IF str = <<>> THEN <<>>
    ELSE (IF Head(str) \in {Quote, Backslash}
          THEN <<Backslash, Head(str)>>
          ELSE <<Head(str)>>) \o Escape(Tail(str))

JsonString(str) == <<Quote>> \o Escape(str) \o <<Quote>>

\* The entries in the order the HashMap iterates them.
RECURSIVE JsonMembers(_, _, _)
JsonMembers(hm, order, i) ==
    IF i > Len(order) THEN <<>>
    ELSE (IF i > 1 THEN <<",">> ELSE <<>>)
         \o JsonString(order[i]) \o <<":">> \o JsonString(hm[order[i]])
         \o JsonMembers(hm, order, i + 1)

\* The iteration orders of a HashMap: any order of its keys.
KeyOrders(hm) ==
    {o \in [1..Cardinality(DOMAIN hm) -> DOMAIN hm] :
        \A i, j \in DOMAIN o : i # j => o[i] # o[j]}

\* serde_json::to_string(&headers_map): one text per iteration order.  It
\* does not fail for a map of strings.
to_string(hm) ==
    {<<"{">> \o JsonMembers(hm, o, 1) \o <<"}">> : o \in KeyOrders(hm)}

ParseFail == [ok |-> FALSE, val |-> <<>>, next |-> 0]

\* A JSON string's contents from position i on, up to its closing quote.
RECURSIVE ParseStringBody(_, _, _)
ParseStringBody(s, i, acc) ==
    IF i > Len(s) THEN ParseFail
    ELSE IF s[i] = Quote THEN [ok |-> TRUE, val |-> acc, next |-> i + 1]
    ELSE IF s[i] = Backslash
         THEN IF i + 1 <= Len(s) /\ s[i + 1] \in {Quote, Backslash}
              THEN ParseStringBody(s, i + 2, Append(acc, s[i + 1]))
              ELSE ParseFail
    ELSE ParseStringBody(s, i + 1, Append(acc, s[i]))

ParseString(s, i) ==
    IF i <= Len(s) /\ s[i] = Quote THEN ParseStringBody(s, i + 1, <<>>)
    ELSE ParseFail

\* "key":"value" entries from position i on, then "}" and the end of the text.
\* A key met again replaces the value it had.
RECURSIVE ParseMembers(_, _, _)
ParseMembers(s, i, hm) ==
    LET k == ParseString(s, i)
        v == ParseString(s, k.next + 1)
        m == [x \in DOMAIN hm \cup {k.val} |-> IF x = k.val THEN v.val ELSE hm[x]]
    IN  IF ~k.ok \/ k.next > Len(s) \/ s[k.next] # ":" THEN [ok |-> FALSE, map |-> EmptyMap]
        ELSE IF ~v.ok \/ v.next > Len(s) THEN [ok |-> FALSE, map |-> EmptyMap]
        ELSE IF s[v.next] = "," THEN ParseMembers(s, v.next + 1, m)
        ELSE IF s[v.next] = "}" /\ v.next = Len(s) THEN [ok |-> TRUE, map |-> m]
        ELSE [ok |-> FALSE, map |-> EmptyMap]

\* serde_json::from_str::<HeadersMap>: a JSON object of string values.
from_str(s) ==
    IF Len(s) < 2 \/ s[1] # "{" THEN [ok |-> FALSE, map |-> EmptyMap]
    ELSE IF s[2] = "}" THEN [ok |-> Len(s) = 2, map |-> EmptyMap]
    ELSE ParseMembers(s, 2, EmptyMap)

(***************************************************************************)
(* HttpCache.  A store is its location.  A result is                        *)
(* [kind, content, hm]: kind is "Ok", an error ("NotFound", "InvalidData",  *)
(* "IoOther" for io::Error, "Json" for serde_json::Error) or "Panic".       *)
(***************************************************************************)
Result(kind, content, hm) == [kind |-> kind, content |-> content, hm |-> hm]

Err(kind) == Result(kind, <<>>, EmptyMap)

\* A new that calls create_dir, which fails on a directory that exists.
HttpCache_new_CreateDir(ds, fs, location, fault) ==
    IF location \in ds \/ location \in DOMAIN fs \/ parent(location) \notin ds
    THEN {[kind |-> "IoOther", dirs |-> ds]}
    ELSE {[kind |-> "Ok", dirs |-> ds \cup {location}]}

\* HttpCache::new: the outcomes [kind, dirs].
HttpCache_new(ds, fs, location, fault) == create_dir_all(ds, fs, location, fault)

\* A get that reads the headers from the content file (no with_extension).
HttpCache_get_SameFile(fs, location, url) ==
    LET name == url_to_filename(url)
        cache_filename == join(location, name.path)
        file == File_open(fs, cache_filename)
        headers_json == read_to_string(fs, cache_filename)
        headers_map == from_str(headers_json.bytes)
    IN  IF name.panic THEN Err("Panic")
        ELSE IF file.kind # "Ok" THEN Err(file.kind)
        ELSE IF headers_json.kind # "Ok" THEN Err(headers_json.kind)
        ELSE IF ~headers_map.ok THEN Err("Json")
        ELSE Result("Ok", file.bytes, headers_map.map)

\* A get that answers a missing content file with an empty entry.
HttpCache_get_Default(fs, location, url) ==
    LET name == url_to_filename(url)
        cache_filename == join(location, name.path)
        headers_filename == with_extension(cache_filename, HeadersExt)
        file == File_open(fs, cache_filename)
        headers_json == read_to_string(fs, headers_filename)
        headers_map == from_str(headers_json.bytes)
    IN  IF name.panic THEN Err("Panic")
        ELSE IF file.kind # "Ok" THEN Result("Ok", <<>>, EmptyMap)
        ELSE IF headers_json.kind # "Ok" THEN Err(headers_json.kind)
        ELSE IF ~headers_map.ok THEN Err("Json")
        ELSE Result("Ok", file.bytes, headers_map.map)

\* A get that answers headers it cannot parse with an empty map.
HttpCache_get_Lenient(fs, location, url) ==
    LET name == url_to_filename(url)
        cache_filename == join(location, name.path)
        headers_filename == with_extension(cache_filename, HeadersExt)
        file == File_open(fs, cache_filename)
        headers_json == read_to_string(fs, headers_filename)
        headers_map == from_str(headers_json.bytes)
    IN  IF name.panic THEN Err("Panic")
        ELSE IF file.kind # "Ok" THEN Err(file.kind)
        ELSE IF headers_json.kind # "Ok" THEN Err(headers_json.kind)
        ELSE IF ~headers_map.ok THEN Result("Ok", file.bytes, EmptyMap)
        ELSE Result("Ok", file.bytes, headers_map.map)

\* HttpCache::get: the result.  It reads fs and changes nothing.
HttpCache_get(fs, location, url) ==
    LET name == url_to_filename(url)
        cache_filename == join(location, name.path)
        headers_filename == with_extension(cache_filename, HeadersExt)
        file == File_open(fs, cache_filename)
        headers_json == read_to_string(fs, headers_filename)
        headers_map == from_str(headers_json.bytes)
    IN  IF name.panic THEN Err("Panic")
        ELSE IF file.kind # "Ok" THEN Err(file.kind)
        ELSE IF headers_json.kind # "Ok" THEN Err(headers_json.kind)
        ELSE IF ~headers_map.ok THEN Err("Json")
        ELSE Result("Ok", file.bytes, headers_map.map)

\* A set that leaves a content file that exists as it is.
HttpCache_set_KeepContent(ds, fs, location, url, headers_map, content, fault) ==
    LET name == url_to_filename(url)
        cache_filename == join(location, name.path)
        headers_filename == with_extension(cache_filename, HeadersExt)
        parent_filename == parent(cache_filename)
        Out(kind, at, d, f) == [kind |-> kind, step |-> at, dirs |-> d, files |-> f]
        WriteHeaders(d, f) ==
            UNION {{Out(w.kind, IF w.kind = "Ok" THEN "done" ELSE "headers", d, w.files) :
                      w \in write_file(d, f, headers_filename, serialized_headers, fault)} :
                   serialized_headers \in to_string(headers_map)}
        WriteContent(d) ==
            IF cache_filename \in DOMAIN fs THEN WriteHeaders(d, fs)
            ELSE UNION {IF w.kind = "Ok" THEN WriteHeaders(d, w.files)
                        ELSE {Out(w.kind, "content", d, w.files)} :
                        w \in write_file(d, fs, cache_filename, content, fault)}
    IN  IF name.panic THEN {Out("Panic", "url_to_filename", ds, fs)}
        ELSE UNION {IF mk.kind = "Ok" THEN WriteContent(mk.dirs)
                    ELSE {Out(mk.kind, "create_dir_all", mk.dirs, fs)} :
                    mk \in create_dir_all(ds, fs, parent_filename, fault)}

\* A set that goes on to write the headers after the content write failed.
HttpCache_set_Continue(ds, fs, location, url, headers_map, content, fault) ==
    LET name == url_to_filename(url)
        cache_filename == join(location, name.path)
        headers_filename == with_extension(cache_filename, HeadersExt)
        parent_filename == parent(cache_filename)
        Out(kind, at, d, f) == [kind |-> kind, step |-> at, dirs |-> d, files |-> f]
        WriteHeaders(d, f, failure) ==
            UNION {{IF failure # "Ok" THEN Out(failure, "content", d, w.files)
                    ELSE Out(w.kind, IF w.kind = "Ok" THEN "done" ELSE "headers", d, w.files) :
                      w \in write_file(d, f, headers_filename, serialized_headers, FALSE)} :
                   serialized_headers \in to_string(headers_map)}
        WriteContent(d) ==
            UNION {WriteHeaders(d, w.files, w.kind) :
                   w \in write_file(d, fs, cache_filename, content, fault)}
    IN  IF name.panic THEN {Out("Panic", "url_to_filename", ds, fs)}
        ELSE UNION {IF mk.kind = "Ok" THEN WriteContent(mk.dirs)
                    ELSE {Out(mk.kind, "create_dir_all", mk.dirs, fs)} :
                    mk \in create_dir_all(ds, fs, parent_filename, fault)}

\* A set that writes no headers file for a map without entries.
HttpCache_set_SkipEmpty(ds, fs, location, url, headers_map, content, fault) ==
    LET name == url_to_filename(url)
        cache_filename == join(location, name.path)
        headers_filename == with_extension(cache_filename, HeadersExt)
        parent_filename == parent(cache_filename)
        Out(kind, at, d, f) == [kind |-> kind, step |-> at, dirs |-> d, files |-> f]
        WriteHeaders(d, f) ==
            IF headers_map = EmptyMap THEN {Out("Ok", "done", d, f)}
            ELSE UNION {{Out(w.kind, IF w.kind = "Ok" THEN "done" ELSE "headers", d, w.files) :
                      w \in write_file(d, f, headers_filename, serialized_headers, fault)} :
                   serialized_headers \in to_string(headers_map)}
        WriteContent(d) ==
            UNION {IF w.kind = "Ok" THEN WriteHeaders(d, w.files)
                   ELSE {Out(w.kind, "content", d, w.files)} :
                   w \in write_file(d, fs, cache_filename, content, fault)}
    IN  IF name.panic THEN {Out("Panic", "url_to_filename", ds, fs)}
        ELSE UNION {IF mk.kind = "Ok" THEN WriteContent(mk.dirs)
                    ELSE {Out(mk.kind, "create_dir_all", mk.dirs, fs)} :
                    mk \in create_dir_all(ds, fs, parent_filename, fault)}

\* A set that keeps the headers of all its entries in one file of the store.
HttpCache_set_SharedHeaders(ds, fs, location, url, headers_map, content, fault) ==
    LET name == url_to_filename(url)
        cache_filename == join(location, name.path)
        headers_filename == join(location, <<HeadersExt>>)
        parent_filename == parent(cache_filename)
        Out(kind, at, d, f) == [kind |-> kind, step |-> at, dirs |-> d, files |-> f]
        WriteHeaders(d, f) ==
            UNION {{Out(w.kind, IF w.kind = "Ok" THEN "done" ELSE "headers", d, w.files) :
                      w \in write_file(d, f, headers_filename, serialized_headers, fault)} :
                   serialized_headers \in to_string(headers_map)}
        WriteContent(d) ==
            UNION {IF w.kind = "Ok" THEN WriteHeaders(d, w.files)
                   ELSE {Out(w.kind, "content", d, w.files)} :
                   w \in write_file(d, fs, cache_filename, content, fault)}
    IN  IF name.panic THEN {Out("Panic", "url_to_filename", ds, fs)}
        ELSE UNION {IF mk.kind = "Ok" THEN WriteContent(mk.dirs)
                    ELSE {Out(mk.kind, "create_dir_all", mk.dirs, fs)} :
                    mk \in create_dir_all(ds, fs, parent_filename, fault)}

\* HttpCache::set: the outcomes [kind, step, dirs, files].  Each `?` returns
\* the first error; the steps before it have taken effect.  step names the
\* call that failed ("done" when none did).
HttpCache_set(ds, fs, location, url, headers_map, content, fault) ==
    LET name == url_to_filename(url)
        cache_filename == join(location, name.path)
        headers_filename == with_extension(cache_filename, HeadersExt)
        parent_filename == parent(cache_filename)
        Out(kind, at, d, f) == [kind |-> kind, step |-> at, dirs |-> d, files |-> f]
        WriteHeaders(d, f) ==
            UNION {{Out(w.kind, IF w.kind = "Ok" THEN "done" ELSE "headers", d, w.files) :
                      w \in write_file(d, f, headers_filename, serialized_headers, fault)} :
                   serialized_headers \in to_string(headers_map)}
        WriteContent(d) ==
            UNION {IF w.kind = "Ok" THEN WriteHeaders(d, w.files)
                   ELSE {Out(w.kind, "content", d, w.files)} :
                   w \in write_file(d, fs, cache_filename, content, fault)}
    IN  IF name.panic THEN {Out("Panic", "url_to_filename", ds, fs)}
        ELSE UNION {IF mk.kind = "Ok" THEN WriteContent(mk.dirs)
                    ELSE {Out(mk.kind, "create_dir_all", mk.dirs, fs)} :
                    mk \in create_dir_all(ds, fs, parent_filename, fault)}

(***************************************************************************)
(* The inputs of the model.                                                 *)
(***************************************************************************)
Tmp == <<"t", "m", "p">>
Root == <<Tmp, <<"f", "o", "o", "b", "a", "r">>>>
Roots == {Root}

HostA == <<"a">>
PathX == <<"/", "x">>

RawUrl(scheme, host, port, path, query, fragment) ==
    [scheme |-> scheme, host |-> host, port |-> port, path |-> path,
     query |-> query, fragment |-> fragment]

\* The URLs given to the store: one, the same with a fragment, the same on
\* another port, and one of a scheme that is not http(s).
StoreRawUrls ==
    {RawUrl(Https, HostA, None, PathX, None, None),
     RawUrl(Https, HostA, None, PathX, None, Some(<<"f">>)),
     RawUrl(Https, HostA, Some(8080), PathX, None, None),
     RawUrl(Ftp, HostA, None, PathX, None, None)}

StoreUrls == {UrlParse(raw) : raw \in StoreRawUrls}

\* The header maps: empty, one entry whose value needs escaping, two entries
\* one of which holds a two-byte character.
HeaderMaps ==
    {EmptyMap,
     (<<"c">> :> <<Quote>>),
     (<<"a">> :> <<"y">>) @@ (<<"b">> :> <<"C3", "A9">>)}

Contents == {<<"h", "i">>, <<"y">>}

\* The arguments given to set: for the first URL every map, the map of two
\* entries with either content and the others with one; one map and one
\* content for each of the other URLs.
SetInputs ==
    {in \in {[raw |-> raw, hm |-> hm, content |-> content] :
                raw \in {r \in StoreRawUrls :
                            r.scheme = Https /\ r.port = None /\ r.fragment = None},
                hm \in HeaderMaps, content \in Contents} :
        \/ Cardinality(DOMAIN in.hm) = 2
        \/ in.hm = EmptyMap /\ in.content = <<"h", "i">>
        \/ Cardinality(DOMAIN in.hm) = 1 /\ in.content = <<"y">>}
    \cup {[raw |-> raw, hm |-> IF raw.fragment = None THEN EmptyMap ELSE (<<"c">> :> <<Quote>>),
           content |-> <<"y">>] :
            raw \in {r \in StoreRawUrls : r.scheme # Https \/ r.port # None \/ r.fragment # None}}

\* The URLs given to url_to_filename alone.
HostDL == <<"d", ".", "l">>

NameRawUrls ==
    {RawUrl(scheme, HostA, port, path, query, fragment) :
        scheme \in {Http, Https},
        port \in {None, Some(80), Some(443), Some(8080)},
        path \in {<<"/">>, PathX},
        query \in {None, Some(<<"q">>)},
        fragment \in {None, Some(<<"q">>)}}
    \cup {RawUrl(Https, HostDL, port, PathX, query, None) :
            port \in {None, Some(8080)}, query \in {None, Some(<<>>)}}
    \cup {RawUrl(Ftp, HostA, None, PathX, None, None)}

\* The threads that share one store: two that call set, one that calls get.
Setters == {1, 2}
Getters == {3}
Procs == Setters \cup Getters

\* The URL the threads call the store with, and what they store for it.
ThreadRawUrl == RawUrl(Https, HostA, None, PathX, None, None)

ThreadInputs ==
    {[hm |-> EmptyMap, content |-> <<"h", "i">>],
     [hm |-> (<<"c">> :> <<Quote>>), content |-> <<"y">>]}

\* A second root, beside the first: neither is inside the other.
RootB == <<Tmp, <<"b">>>>

\* The variables of a program that holds several stores, and the location
\* each is constructed with: two stores of the same root and one of another.
Handles == {"s1", "s2", "s3"}

HandleRoot == [h \in Handles |-> IF h = "s2" THEN RootB ELSE Root]

\* What that program stores: two entries for one URL.
HandleInputs ==
    {in \in SetInputs :
        /\ in.raw.scheme = Https
        /\ in.raw.fragment = None
        /\ in.raw.port = None
        /\ Cardinality(DOMAIN in.hm) <= 1}

HandleRawUrls == {in.raw : in \in HandleInputs}

(***************************************************************************)
(* The state machine.                                                       *)
(***************************************************************************)
\* A call: the operation, its arguments (raw is the URL as written, url the
\* parsed Url), the relative path derived for the URL, and the result.
Call(op, location, raw, hm, content, path, res) ==
    [op |-> op, location |-> location, raw |-> raw, url |-> UrlParse(raw), hm |-> hm,
     content |-> content, path |-> path, res |-> res]

NoCall == Call("none", <<>>, NoUrl, EmptyMap, <<>>, <<>>, Err("Ok"))

\* The call of a thread: the operation and, for a set, its arguments.
Args(op, headers_map, content) == [op |-> op, hm |-> headers_map, content |-> content]

NoArgs == Args("none", EmptyMap, <<>>)

Panicked == last.res.kind = "Panic"

\* What `before` keeps of the call that `last` held.
Before ==
    IF last.res.kind = "Ok" /\ last.op \in {"set", "url_to_filename"}
    THEN Some(last)
    ELSE None

Init ==
    /\ dirs = {<<>>, <<Tmp>>}
    /\ files = <<>>
    /\ stores = {}
    /\ last = NoCall
    /\ before = None
    /\ lastSet = [k \in Roots \X StoreUrls |-> None]
    /\ latest = [k \in Roots \X {StripFragment(u) : u \in StoreUrls} |-> None]
    /\ setCalled = {}
    /\ failed = FALSE
    /\ nsets = 0
    /\ nfaults = 0
    /\ step = "none"
    /\ pc = [p \in Procs |-> "idle"]
    /\ args = [p \in Procs |-> NoArgs]
    /\ ret = [p \in Procs |-> Err("None")]
    /\ opened = [p \in Procs |-> FALSE]
    /\ wrote = [content |-> None, headers |-> None]
    /\ issued = {}
    /\ torn = FALSE
    /\ cache = [h \in Handles |-> None]
    /\ used = [prev |-> "none", now |-> "none"]

MayFault == nfaults < MaxFaults

\* HttpCache::new(location)
New(location) ==
    /\ ~Panicked
    /\ \E out \in HttpCache_new(dirs, files, location, MayFault) :
        /\ dirs' = out.dirs
        /\ stores' = IF out.kind = "Ok" THEN stores \cup {location} ELSE stores
        /\ last' = Call("new", location, NoUrl, EmptyMap, <<>>, <<>>, Err(out.kind))
        /\ nfaults' = IF out.kind = "Ok" THEN nfaults ELSE nfaults + 1
    /\ before' = Before
    /\ step' = "none"
    /\ UNCHANGED <<files, lastSet, latest, setCalled, failed, nsets, concvars, storevars>>

\* A get that opens the content file with create(true): a missing file is made.
Get_Create(location, raw) ==
    /\ ~Panicked
    /\ location \in stores
    /\ LET url == UrlParse(raw)
           name == url_to_filename(url)
           cache_filename == join(location, name.path)
       IN  /\ last' = Call("get", location, raw, EmptyMap, <<>>, name.path,
                           HttpCache_get(files, location, url))
           /\ files' = IF ~name.panic /\ parent(cache_filename) \in dirs
                          /\ cache_filename \notin DOMAIN files
                       THEN (cache_filename :> <<>>) @@ files
                       ELSE files
    /\ before' = Before
    /\ step' = "none"
    /\ UNCHANGED <<dirs, stores, lastSet, latest, setCalled, failed, nsets, nfaults, concvars, storevars>>

\* cache.get(&url)
Get(location, raw) ==
    /\ ~Panicked
    /\ location \in stores
    /\ LET url == UrlParse(raw)
       IN  last' = Call("get", location, raw, EmptyMap, <<>>, url_to_filename(url).path,
                        HttpCache_get(files, location, url))
    /\ before' = Before
    /\ step' = "none"
    /\ UNCHANGED <<dirs, files, stores, lastSet, latest, setCalled, failed, nsets, nfaults,
                   concvars, storevars>>

\* cache.set(&url, headers_map, content)
Set(location, raw, headers_map, content) ==
    /\ ~Panicked
    /\ location \in stores
    /\ nsets < MaxSets
    /\ LET url == UrlParse(raw)
       IN  \E out \in HttpCache_set(dirs, files, location, url, headers_map, content, MayFault) :
            /\ dirs' = out.dirs
            /\ files' = out.files
            /\ last' = Call("set", location, raw, headers_map, content,
                            url_to_filename(url).path, Err(out.kind))
            /\ lastSet' = IF out.kind = "Ok"
                          THEN [lastSet EXCEPT ![<<location, url>>] =
                                   Some([hm |-> headers_map, content |-> content])]
                          ELSE lastSet
            /\ latest' = IF out.kind = "Ok"
                         THEN [latest EXCEPT ![<<location, StripFragment(url)>>] =
                                  Some([hm |-> headers_map, content |-> content])]
                         ELSE latest
            /\ setCalled' = setCalled \cup {<<location, url>>}
            /\ failed' = (failed \/ out.kind \notin {"Ok", "Panic"})
            /\ nfaults' = IF out.kind \in {"Ok", "Panic"} THEN nfaults ELSE nfaults + 1
            /\ step' = out.step
    /\ nsets' = nsets + 1
    /\ before' = Before
    /\ UNCHANGED <<stores, concvars, storevars>>

\* url_to_filename(&url), called on its own
Derive(raw) ==
    /\ ~Panicked
    /\ LET url == UrlParse(raw)
           name == url_to_filename(url)
       IN  last' = Call("url_to_filename", <<>>, raw, EmptyMap, <<>>, name.path,
                        Err(IF name.panic THEN "Panic" ELSE "Ok"))
    /\ before' = Before
    /\ step' = "none"
    /\ UNCHANGED <<dirs, files, stores, lastSet, latest, setCalled, failed, nsets, nfaults,
                   concvars, storevars>>

Next ==
    \/ \E location \in Roots : New(location)
    \/ \E location \in Roots, raw \in StoreRawUrls : Get(location, raw)
    \/ \E location \in Roots, in \in SetInputs : Set(location, in.raw, in.hm, in.content)

Spec == Init /\ [][Next]_vars

\* url_to_filename alone, on a wider set of URLs.
NextNames == \E raw \in NameRawUrls : Derive(raw)

SpecNames == Init /\ [][NextNames]_vars

(***************************************************************************)
(* Threads that share one store (&self) and call it with the same URL.  A   *)
(* call is made step by step, one step per filesystem call of the code; the *)
(* steps of different threads interleave freely.                            *)
(***************************************************************************)
ThreadUrl == UrlParse(ThreadRawUrl)

ThreadFile == join(Root, url_to_filename(ThreadUrl).path)

ThreadHeaders == with_extension(ThreadFile, HeadersExt)

SeqGhosts == <<stores, last, before, lastSet, latest, setCalled, failed, step, storevars>>

\* What a call that returns leaves in pc and ret.
Return(p, res) ==
    /\ pc' = [pc EXCEPT ![p] = "idle"]
    /\ ret' = [ret EXCEPT ![p] = res]

\* cache.set(&url, headers_map, content) is called: lines 105-110.
SetCall(p, headers_map, content) ==
    /\ ~Panicked
    /\ Root \in stores
    /\ pc[p] = "idle"
    /\ nsets < MaxSets
    /\ pc' = [pc EXCEPT ![p] = "create_dir_all"]
    /\ args' = [args EXCEPT ![p] = Args("set", headers_map, content)]
    /\ ret' = [ret EXCEPT ![p] = Err("None")]
    /\ issued' = issued \cup {[hm |-> headers_map, content |-> content]}
    /\ nsets' = nsets + 1
    /\ UNCHANGED <<dirs, files, nfaults, opened, wrote, torn, SeqGhosts>>

\* fs::create_dir_all(parent_filename)?  (line 111)
SetCreateDir(p) ==
    /\ pc[p] = "create_dir_all"
    /\ \E mk \in create_dir_all(dirs, files, parent(ThreadFile), MayFault) :
        /\ dirs' = mk.dirs
        /\ IF mk.kind = "Ok"
           THEN pc' = [pc EXCEPT ![p] = "content"] /\ ret' = ret
           ELSE Return(p, Err(mk.kind))
        /\ nfaults' = IF mk.kind = "Ok" THEN nfaults ELSE nfaults + 1
    /\ UNCHANGED <<files, nsets, args, opened, wrote, issued, torn, SeqGhosts>>

\* A content write that opens the file to append rather than to truncate.
SetWriteContent_Append(p) ==
    /\ pc[p] = "content"
    /\ LET old == IF ThreadFile \in DOMAIN files THEN files[ThreadFile] ELSE <<>>
       IN  files' = (ThreadFile :> (old \o args[p].content)) @@ files
    /\ pc' = [pc EXCEPT ![p] = "headers"]
    /\ wrote' = [wrote EXCEPT !.content = Some(args[p])]
    /\ UNCHANGED <<dirs, nsets, nfaults, args, ret, opened, issued, torn, SeqGhosts>>

\* A content write whose error is dropped: the set goes on to the headers.
SetWriteContent_IgnoreError(p) ==
    /\ pc[p] = "content"
    /\ \E w \in write_file(dirs, files, ThreadFile, args[p].content, MayFault) :
        /\ files' = w.files
        /\ pc' = [pc EXCEPT ![p] = "headers"]
        /\ wrote' = IF w.kind = "Ok" THEN [wrote EXCEPT !.content = Some(args[p])] ELSE wrote
        /\ torn' = (torn \/ (w.kind # "Ok" /\ w.files # files))
        /\ nfaults' = IF w.kind = "Ok" THEN nfaults ELSE nfaults + 1
    /\ UNCHANGED <<dirs, nsets, args, ret, opened, issued, SeqGhosts>>

\* deno_fs::write_file(&cache_filename, content, 0o666)?  (line 113)
SetWriteContent(p) ==
    /\ pc[p] = "content"
    /\ \E w \in write_file(dirs, files, ThreadFile, args[p].content, MayFault) :
        /\ files' = w.files
        /\ IF w.kind = "Ok"
           THEN pc' = [pc EXCEPT ![p] = "headers"] /\ ret' = ret
           ELSE Return(p, Err(w.kind))
        /\ wrote' = IF w.kind = "Ok" THEN [wrote EXCEPT !.content = Some(args[p])] ELSE wrote
        /\ torn' = (torn \/ (w.kind # "Ok" /\ w.files # files))
        /\ nfaults' = IF w.kind = "Ok" THEN nfaults ELSE nfaults + 1
    /\ UNCHANGED <<dirs, nsets, args, opened, issued, SeqGhosts>>

\* A headers write that leaves a headers file that exists as it is.
SetWriteHeaders_KeepExisting(p) ==
    /\ pc[p] = "headers"
    /\ \E serialized_headers \in to_string(args[p].hm) :
        files' = IF ThreadHeaders \in DOMAIN files THEN files
                 ELSE (ThreadHeaders :> serialized_headers) @@ files
    /\ Return(p, Err("Ok"))
    /\ wrote' = [wrote EXCEPT !.headers = Some(args[p])]
    /\ UNCHANGED <<dirs, nsets, nfaults, args, opened, issued, torn, SeqGhosts>>

\* serde_json::to_string(&headers_map)? and
\* deno_fs::write_file(&headers_filename, serialized_headers, 0o666)?  (lines 114-117)
SetWriteHeaders(p) ==
    /\ pc[p] = "headers"
    /\ \E serialized_headers \in to_string(args[p].hm) :
       \E w \in write_file(dirs, files, ThreadHeaders, serialized_headers, MayFault) :
        /\ files' = w.files
        /\ Return(p, Err(w.kind))
        /\ wrote' = IF w.kind = "Ok" THEN [wrote EXCEPT !.headers = Some(args[p])] ELSE wrote
        /\ torn' = (torn \/ (w.kind # "Ok" /\ w.files # files))
        /\ nfaults' = IF w.kind = "Ok" THEN nfaults ELSE nfaults + 1
    /\ UNCHANGED <<dirs, nsets, args, opened, issued, SeqGhosts>>

\* cache.get(&url) is called: lines 91-92.
GetCall(p) ==
    /\ ~Panicked
    /\ Root \in stores
    /\ pc[p] = "idle"
    /\ pc' = [pc EXCEPT ![p] = "open"]
    /\ args' = [args EXCEPT ![p] = Args("get", EmptyMap, <<>>)]
    /\ ret' = [ret EXCEPT ![p] = Err("None")]
    /\ opened' = [opened EXCEPT ![p] = FALSE]
    /\ UNCHANGED <<dirs, files, nsets, nfaults, wrote, issued, torn, SeqGhosts>>

\* File::open(cache_filename)?  (line 93)
GetOpen(p) ==
    /\ pc[p] = "open"
    /\ LET handle == File_open(files, ThreadFile)
       IN  IF handle.kind = "Ok"
           THEN /\ pc' = [pc EXCEPT ![p] = "read"]
                /\ opened' = [opened EXCEPT ![p] = TRUE]
                /\ ret' = ret
           ELSE /\ Return(p, Err(handle.kind))
                /\ opened' = opened
    /\ UNCHANGED <<dirs, files, nsets, nfaults, args, wrote, issued, torn, SeqGhosts>>

\* A headers read that answers a missing headers file with an empty map.
GetRead_Default(p) ==
    /\ pc[p] = "read"
    /\ LET headers_json == read_to_string(files, ThreadHeaders)
           headers_map == from_str(headers_json.bytes)
       IN  Return(p, IF headers_json.kind = "NotFound"
                     THEN Result("Ok", files[ThreadFile], EmptyMap)
                     ELSE IF headers_json.kind # "Ok" THEN Err(headers_json.kind)
                     ELSE IF ~headers_map.ok THEN Err("Json")
                     ELSE Result("Ok", files[ThreadFile], headers_map.map))
    /\ UNCHANGED <<dirs, files, nsets, nfaults, args, opened, wrote, issued, torn, SeqGhosts>>

\* fs::read_to_string(headers_filename)?, serde_json::from_str(..)? and
\* Ok((file, headers_map))  (lines 94-96).  The content is what the handle
\* gives when the caller reads it, taken here as the get returns.
GetRead(p) ==
    /\ pc[p] = "read"
    /\ LET headers_json == read_to_string(files, ThreadHeaders)
           headers_map == from_str(headers_json.bytes)
       IN  Return(p, IF headers_json.kind # "Ok" THEN Err(headers_json.kind)
                     ELSE IF ~headers_map.ok THEN Err("Json")
                     ELSE Result("Ok", files[ThreadFile], headers_map.map))
    /\ UNCHANGED <<dirs, files, nsets, nfaults, args, opened, wrote, issued, torn, SeqGhosts>>

NextThreads ==
    \/ New(Root)
    \/ \E p \in Setters, in \in ThreadInputs : SetCall(p, in.hm, in.content)
    \/ \E p \in Setters : SetCreateDir(p)
    \/ \E p \in Setters : SetWriteContent(p)
    \/ \E p \in Setters : SetWriteHeaders(p)
    \/ \E p \in Getters : GetCall(p)
    \/ \E p \in Getters : GetOpen(p)
    \/ \E p \in Getters : GetRead(p)

SpecThreads == Init /\ [][NextThreads]_vars

(***************************************************************************)
(* A program that holds several HttpCache values, each in a variable, and   *)
(* calls them one after another.                                            *)
(***************************************************************************)
StoreGhosts == <<stores, lastSet, latest, setCalled, failed, concvars>>

\* let h = HttpCache::new(location)
StoreNew(h, location) ==
    /\ ~Panicked
    /\ cache[h] = None
    /\ \E out \in HttpCache_new(dirs, files, location, MayFault) :
        /\ dirs' = out.dirs
        /\ cache' = IF out.kind = "Ok" THEN [cache EXCEPT ![h] = Some(location)] ELSE cache
        /\ last' = Call("new", location, NoUrl, EmptyMap, <<>>, <<>>, Err(out.kind))
        /\ nfaults' = IF out.kind = "Ok" THEN nfaults ELSE nfaults + 1
    /\ used' = [prev |-> used.now, now |-> h]
    /\ before' = Before
    /\ step' = "none"
    /\ UNCHANGED <<files, nsets, StoreGhosts>>

\* let h2 = h.clone()  (#[derive(Clone)])
StoreClone(h, h2) ==
    /\ ~Panicked
    /\ cache[h] # None
    /\ cache[h2] = None
    /\ cache' = [cache EXCEPT ![h2] = cache[h]]
    /\ last' = Call("clone", cache[h][1], NoUrl, EmptyMap, <<>>, <<>>, Err("Ok"))
    /\ used' = [prev |-> used.now, now |-> h2]
    /\ before' = Before
    /\ step' = "none"
    /\ UNCHANGED <<dirs, files, nsets, nfaults, StoreGhosts>>

\* h.get(&url)
StoreGet(h, raw) ==
    /\ ~Panicked
    /\ cache[h] # None
    /\ LET url == UrlParse(raw)
           location == cache[h][1]
       IN  last' = Call("get", location, raw, EmptyMap, <<>>, url_to_filename(url).path,
                        HttpCache_get(files, location, url))
    /\ used' = [prev |-> used.now, now |-> h]
    /\ before' = Before
    /\ step' = "none"
    /\ UNCHANGED <<dirs, files, cache, nsets, nfaults, StoreGhosts>>

\* A set that writes under one root of the whole process, whatever the store.
StoreSet_Global(h, raw, headers_map, content) ==
    /\ ~Panicked
    /\ cache[h] # None
    /\ nsets < MaxSets
    /\ Root \in dirs
    /\ LET url == UrlParse(raw)
           location == cache[h][1]
       IN  \E out \in HttpCache_set(dirs, files, Root, url, headers_map, content, MayFault) :
            /\ dirs' = out.dirs
            /\ files' = out.files
            /\ last' = Call("set", location, raw, headers_map, content,
                            url_to_filename(url).path, Err(out.kind))
            /\ nfaults' = IF out.kind \in {"Ok", "Panic"} THEN nfaults ELSE nfaults + 1
            /\ step' = out.step
    /\ nsets' = nsets + 1
    /\ used' = [prev |-> used.now, now |-> h]
    /\ before' = Before
    /\ UNCHANGED <<cache, StoreGhosts>>

\* h.set(&url, headers_map, content)
StoreSet(h, raw, headers_map, content) ==
    /\ ~Panicked
    /\ cache[h] # None
    /\ nsets < MaxSets
    /\ LET url == UrlParse(raw)
           location == cache[h][1]
       IN  \E out \in HttpCache_set(dirs, files, location, url, headers_map, content, MayFault) :
            /\ dirs' = out.dirs
            /\ files' = out.files
            /\ last' = Call("set", location, raw, headers_map, content,
                            url_to_filename(url).path, Err(out.kind))
            /\ nfaults' = IF out.kind \in {"Ok", "Panic"} THEN nfaults ELSE nfaults + 1
            /\ step' = out.step
    /\ nsets' = nsets + 1
    /\ used' = [prev |-> used.now, now |-> h]
    /\ before' = Before
    /\ UNCHANGED <<cache, StoreGhosts>>

NextStores ==
    \/ \E h \in Handles : StoreNew(h, HandleRoot[h])
    \/ StoreClone("s1", "s3")
    \/ \E h \in Handles, raw \in HandleRawUrls : StoreGet(h, raw)
    \/ \E h \in Handles, in \in HandleInputs : StoreSet(h, in.raw, in.hm, in.content)

SpecStores == Init /\ [][NextStores]_vars

(***************************************************************************)
(* The properties.                                                          *)
(***************************************************************************)
IsHttp(url) == url.scheme \in {Http, Https}

ContentFile(location, url) == join(location, url_to_filename(url).path)

HeadersFile(location, url) == with_extension(ContentFile(location, url), HeadersExt)

\* `last` is a get made right after a set that returned Ok, on the same store.
GetAfterSet ==
    /\ last.op = "get"
    /\ before # None
    /\ before[1].op = "set"
    /\ before[1].location = last.location

\* C1: a get(u) made right after a set(u, M, B) that returned Ok returns Ok
\* with the bytes B and a map equal to M (the same keys, the same values).
C1_RoundTrip ==
    (GetAfterSet /\ before[1].url = last.url)
        => last.res = Result("Ok", before[1].content, before[1].hm)

\* The round trip of a map of two entries, one with a two-byte character.
C1_Witness ==
    /\ GetAfterSet
    /\ before[1].url = last.url
    /\ last.res.kind = "Ok"
    /\ Cardinality(DOMAIN last.res.hm) = 2
    /\ last.res.content = <<"h", "i">>

SetCalledModuloFragment(location, url) ==
    \E p \in setCalled : p[1] = location /\ StripFragment(p[2]) = StripFragment(url)

TwoNames ==
    /\ last.op = "url_to_filename"
    /\ last.res.kind = "Ok"
    /\ before # None
    /\ before[1].op = "url_to_filename"

\* C4: url_to_filename gives two http(s) URLs that differ in their fragment
\* only (two fragments, or one and none) the same path.
C4_FragmentIgnored ==
    (TwoNames /\ StripFragment(before[1].url) = StripFragment(last.url))
        => last.path = before[1].path

\* Two URLs with a query, one with a fragment and one without.
C4_Witness ==
    /\ TwoNames
    /\ StripFragment(before[1].url) = StripFragment(last.url)
    /\ before[1].url.fragment = None
    /\ last.url.fragment # None
    /\ last.url.query # None
    /\ Len(last.path) = 3

\* C5: a get(u2) made right after a set(u1, M, B) that returned Ok, u2 being
\* u1 but for the fragment, returns Ok with B and M; with the roles of the two
\* URLs exchanged, a set through one replaces what get returns for the other.
C5_FragmentAlias ==
    (GetAfterSet /\ before[1].url # last.url
     /\ StripFragment(before[1].url) = StripFragment(last.url))
        => last.res = Result("Ok", before[1].content, before[1].hm)

\* get(u1) returns what set(u1#f, ..) stored, not what set(u1, ..) had stored.
C5_Witness ==
    /\ GetAfterSet
    /\ last.res.kind = "Ok"
    /\ last.url.fragment = None
    /\ before[1].url.fragment # None
    /\ StripFragment(before[1].url) = last.url
    /\ lastSet[<<last.location, last.url>>] # None
    /\ lastSet[<<last.location, last.url>>][1].content # last.res.content

\* The number a sequence of decimal digits writes.
RECURSIVE DecimalValue(_)
DecimalValue(digits) ==
    IF digits = <<>> THEN 0
    ELSE 10 * DecimalValue(SubSeq(digits, 1, Len(digits) - 1))
         + (CHOOSE d \in 0..9 : DigitChars[d + 1] = digits[Len(digits)])

\* The host segment the URL as written asks for: the host alone when the port
\* is absent or the scheme's default, else the host, "_PORT" and the port in
\* decimal digits.
HostSegmentOk(raw, seg) ==
    LET host == raw.host
        n == Len(host)
        default == \/ raw.scheme = Http /\ raw.port = Some(80)
                   \/ raw.scheme = Https /\ raw.port = Some(443)
        digits == SubSeq(seg, n + 6, Len(seg))
    IN  IF raw.port = None \/ default THEN seg = host
        ELSE /\ Len(seg) > n + 5
             /\ SubSeq(seg, 1, n) = host
             /\ SubSeq(seg, n + 1, n + 5) = <<"_", "P", "O", "R", "T">>
             /\ \A i \in DOMAIN digits : \E d \in 0..9 : DigitChars[d + 1] = digits[i]
             /\ digits[1] # "0"
             /\ DecimalValue(digits) = raw.port[1]

\* C6: for an http(s) URL the path is <scheme>/<host segment>/<digest>, the
\* host segment as HostSegmentOk says; two URLs of equal path and query have
\* the same digest; two URLs that differ in their port only have the same
\* digest and different host segments.
C6_PathShape ==
    /\ (last.op = "url_to_filename" /\ IsHttp(last.url))
         => /\ last.res.kind = "Ok"
            /\ Len(last.path) = 3
            /\ last.path[1] = last.raw.scheme
            /\ HostSegmentOk(last.raw, last.path[2])
    /\ (TwoNames /\ before[1].url.path = last.url.path
        /\ before[1].url.query = last.url.query)
         => last.path[3] = before[1].path[3]
    /\ (TwoNames /\ before[1].url.port # last.url.port
        /\ [before[1].url EXCEPT !.port = None] = [last.url EXCEPT !.port = None])
         => /\ last.path[3] = before[1].path[3]
            /\ last.path[2] # before[1].path[2]

\* Two URLs with a query that differ in their port only, one on port 8080 and
\* one with the default port written out.
C6_Witness ==
    /\ TwoNames
    /\ before[1].raw.port = Some(8080)
    /\ last.raw.port = Some(443)
    /\ last.raw.scheme = Https
    /\ last.url.query # None
    /\ [before[1].url EXCEPT !.port = None] = [last.url EXCEPT !.port = None]

\* C7: get and set answer a URL whose scheme is not http(s) with an
\* UnsupportedScheme error value.
C7_TypedError ==
    (last.op \in {"get", "set"} /\ ~IsHttp(last.url))
        => last.res.kind = "UnsupportedScheme"

\* The bytes are what to_string writes for some map.
WellFormed(bytes) == \E hm \in HeaderMaps : bytes \in to_string(hm)

\* C8 as stated: with the content file present, get(u) returns NotFound when
\* the headers file is absent and a parse error when it is present and is not
\* a JSON object of strings; it returns Ok only when both are present and
\* the headers file is such an object.
C8_Original ==
    (last.op = "get" /\ IsHttp(last.url))
        => LET c == ContentFile(last.location, last.url)
               h == HeadersFile(last.location, last.url)
           IN  /\ (c \in DOMAIN files /\ h \notin DOMAIN files)
                    => last.res.kind = "NotFound"
               /\ (c \in DOMAIN files /\ h \in DOMAIN files /\ ~WellFormed(files[h]))
                    => last.res.kind = "Json"
               /\ last.res.kind = "Ok"
                    => (c \in DOMAIN files /\ h \in DOMAIN files /\ WellFormed(files[h]))

\* C8, amended: with the content file present, get(u) returns NotFound when
\* the headers file is absent, an I/O error of kind InvalidData when its bytes
\* are not UTF-8, a parse error when they are UTF-8 and not a JSON object of
\* strings, and Ok otherwise; it returns Ok only when both files are present
\* and the headers file is such an object.
C8_MissingOrCorrupt ==
    (last.op = "get" /\ IsHttp(last.url))
        => LET c == ContentFile(last.location, last.url)
               h == HeadersFile(last.location, last.url)
           IN  /\ (c \in DOMAIN files /\ h \notin DOMAIN files)
                    => last.res.kind = "NotFound"
               /\ (c \in DOMAIN files /\ h \in DOMAIN files /\ ~Utf8Valid(files[h]))
                    => last.res.kind = "InvalidData"
               /\ (c \in DOMAIN files /\ h \in DOMAIN files /\ Utf8Valid(files[h])
                   /\ ~WellFormed(files[h]))
                    => last.res.kind = "Json"
               /\ last.res.kind = "Ok"
                    <=> (c \in DOMAIN files /\ h \in DOMAIN files /\ WellFormed(files[h]))

\* A get that meets a content file and a headers file cut short.
C8_Witness ==
    /\ last.op = "get"
    /\ last.res.kind = "Json"
    /\ ContentFile(last.location, last.url) \in DOMAIN files
    /\ Len(files[HeadersFile(last.location, last.url)]) > 2

\* C9: a new that returns Ok leaves its location a directory; a new on a
\* location that is a directory returns Ok, gives the store, and leaves every
\* directory and every file as it was.
C9_Idempotent ==
    /\ [](last.op = "new" /\ last.res.kind = "Ok" => last.location \in dirs)
    /\ [][(last'.op = "new" /\ last'.location \in dirs)
            => /\ last'.res.kind = "Ok"
               /\ last'.location \in stores'
               /\ dirs' = dirs
               /\ files' = files]_vars

\* A new that returned Ok on a store that holds an entry.
C9_Witness ==
    /\ last.op = "new"
    /\ last.res.kind = "Ok"
    /\ last.location \in stores
    /\ \E p \in DOMAIN lastSet : lastSet[p] # None /\ p[1] = last.location

\* C10: a get, whatever it returns, leaves every directory and every file,
\* with its bytes, as it was.
C10_GetReadsOnly ==
    [][last'.op = "get" => (dirs' = dirs /\ files' = files)]_vars

\* A get that returned an error on a store whose entry for the URL is partial.
C10_Witness ==
    /\ last.op = "get"
    /\ last.res.kind = "NotFound"
    /\ ContentFile(last.location, last.url) \in DOMAIN files

\* The file at the path is the same before and after the step: absent in
\* both, or present in both with the same bytes.
SameFile(path) ==
    /\ (path \in DOMAIN files') = (path \in DOMAIN files)
    /\ path \in DOMAIN files => files'[path] = files[path]

\* C11: a set of an http(s) URL returns Ok exactly when no step failed, and
\* then the parent directory exists, the content file holds the content and
\* the headers file holds the serialized map; a set that fails returns the
\* I/O error of the step that failed (serialization of a map of strings never
\* fails) and has run none of the later steps: no file is touched after a
\* failed create_dir_all, the headers file is untouched after a failed content
\* write, and the content is in place when the headers write is what failed.
C11_FirstError ==
    [][(last'.op = "set" /\ IsHttp(last'.url))
        => LET c == ContentFile(last'.location, last'.url)
               h == HeadersFile(last'.location, last'.url)
           IN  /\ (last'.res.kind = "Ok") = (step' = "done")
               /\ step' \in {"create_dir_all", "content", "headers", "done"}
               /\ step' = "done"
                    => /\ parent(c) \in dirs'
                       /\ c \in DOMAIN files' /\ files'[c] = last'.content
                       /\ h \in DOMAIN files' /\ files'[h] \in to_string(last'.hm)
                       /\ nfaults' = nfaults
               /\ step' # "done"
                    => /\ last'.res.kind \in {"IoOther", "NotFound"}
                       /\ nfaults' = nfaults + 1
               /\ step' = "create_dir_all"
                    => /\ files' = files
                       /\ parent(c) \notin dirs'
               /\ step' = "content"
                    => /\ parent(c) \in dirs'
                       /\ SameFile(h)
                       /\ SameFile(c) \/ (c \in DOMAIN files' /\ files'[c] # last'.content)
               /\ step' = "headers"
                    => /\ c \in DOMAIN files' /\ files'[c] = last'.content
                       /\ SameFile(h) \/ (h \in DOMAIN files' /\ files'[h] \notin to_string(last'.hm))
       ]_vars

\* A set whose content write failed part way on an entry that was complete:
\* the content file is cut short and the headers file is the one it was.
C11_Witness ==
    /\ last.op = "set"
    /\ step = "content"
    /\ last.res.kind = "IoOther"
    /\ ContentFile(last.location, last.url) \in DOMAIN files
    /\ files[ContentFile(last.location, last.url)] = <<"h">>
    /\ HeadersFile(last.location, last.url) \in DOMAIN files
    /\ files[HeadersFile(last.location, last.url)] \notin to_string(last.hm)

\* `last` is a set that wrote the content and failed to write the headers,
\* and the step made is a get of the same URL on the same store.
GetAfterPartialSet ==
    /\ last.op = "set"
    /\ step = "headers"
    /\ last'.op = "get"
    /\ last'.location = last.location
    /\ last'.url = last.url

\* C12: the get(u) that follows a set(u, ..) that wrote the content file and
\* failed before the headers file was written fails with NotFound or with a
\* parse error, whatever the entry of u was before that set.
C12_PartialDetected ==
    [][GetAfterPartialSet => last'.res.kind \in {"NotFound", "Json"}]_vars

\* No set of a thread is under way.
NoSetUnderWay == \A p \in Setters : pc[p] = "idle"

\* C13: when the sets of the threads have all returned Ok, the entry holds
\* the content of the set that wrote the content file last and the map of the
\* set that wrote the headers file last, whether or not they are the same
\* call, and a get made then returns Ok with that pair.
C13_MixedPair ==
    (NoSetUnderWay /\ nfaults = 0 /\ wrote.content # None /\ wrote.headers # None)
        => /\ files[ThreadFile] = wrote.content[1].content
           /\ files[ThreadHeaders] \in to_string(wrote.headers[1].hm)
           /\ HttpCache_get(files, Root, ThreadUrl)
                = Result("Ok", wrote.content[1].content, wrote.headers[1].hm)

\* Two sets of different contents and maps have both returned Ok, the entry
\* holds the content of one and the map of the other, and a get has returned
\* Ok with that pair.
C13_Witness ==
    /\ NoSetUnderWay
    /\ nfaults = 0
    /\ \A p \in Setters : args[p].op = "set" /\ ret[p].kind = "Ok"
    /\ wrote.content # None /\ wrote.headers # None
    /\ wrote.content[1].content # wrote.headers[1].content
    /\ wrote.content[1].hm # wrote.headers[1].hm
    /\ \E g \in Getters :
         /\ pc[g] = "idle"
         /\ ret[g] = Result("Ok", wrote.content[1].content, wrote.headers[1].hm)

\* C14: with no failed write, the content file is present without the headers
\* file only while a set stands between its two writes; a get that has opened
\* the content file and reads the headers while they are missing returns
\* NotFound, and changes nothing the set needs in order to return Ok.
C14_GetRacesSet ==
    /\ []((nfaults = 0 /\ ThreadFile \in DOMAIN files /\ ThreadHeaders \notin DOMAIN files)
            => \E p \in Setters : pc[p] = "headers")
    /\ [][\A g \in Getters :
            (pc[g] = "read" /\ pc'[g] = "idle" /\ ThreadHeaders \notin DOMAIN files)
                => /\ opened[g]
                   /\ ThreadFile \in DOMAIN files
                   /\ ret'[g].kind = "NotFound"
                   /\ files' = files /\ dirs' = dirs
                   /\ \A p \in Setters : pc'[p] = pc[p]]_vars

\* A get has returned NotFound after it had opened the content file, and the
\* first set of the URL, the only one made, has returned Ok.
C14_Witness ==
    /\ nsets = 1
    /\ nfaults = 0
    /\ \E p \in Setters : pc[p] = "idle" /\ args[p].op = "set" /\ ret[p].kind = "Ok"
    /\ \E g \in Getters :
         /\ pc[g] = "idle"
         /\ args[g].op = "get"
         /\ opened[g]
         /\ ret[g].kind = "NotFound"

\* C15: while every set made has returned Ok, for every derived path the
\* content file exists exactly when the headers file does, the two hold the
\* content and the serialized map given to one and the same set call (the
\* latest for that path), and no other file exists.
C15_Paired ==
    ~failed =>
        /\ \A location \in Roots, u \in StoreUrls :
             IsHttp(u) =>
                LET c == ContentFile(location, u)
                    h == HeadersFile(location, u)
                    s == latest[<<location, StripFragment(u)>>]
                IN  /\ (c \in DOMAIN files) = (h \in DOMAIN files)
                    /\ (c \in DOMAIN files) = (s # None)
                    /\ s # None => /\ files[c] = s[1].content
                                   /\ files[h] \in to_string(s[1].hm)
        /\ \A path \in DOMAIN files :
             \E location \in Roots, u \in StoreUrls :
                IsHttp(u) /\ path \in {ContentFile(location, u), HeadersFile(location, u)}

\* Two entries at two derived paths, one of them with a map without entries.
C15_Witness ==
    /\ ~failed
    /\ Cardinality(DOMAIN files) = 4
    /\ \E k \in DOMAIN latest : latest[k] # None /\ latest[k][1].hm = EmptyMap
    /\ \E k \in DOMAIN latest : latest[k] # None /\ latest[k][1].hm # EmptyMap

\* C16: in every state the threads can reach, with sets under way, failed or
\* stopped at any step, a headers file that exists has its content file:
\* this for the URL of the threads and for every other http(s) URL.
C16_HeadersImplyContent ==
    /\ ThreadHeaders \in DOMAIN files => ThreadFile \in DOMAIN files
    /\ \A location \in Roots, u \in StoreUrls :
         (IsHttp(u) /\ HeadersFile(location, u) \in DOMAIN files)
            => ContentFile(location, u) \in DOMAIN files

\* The headers file exists, a write has failed part way, one set stands
\* between its two writes and a get between its two reads.
C16_Witness ==
    /\ ThreadHeaders \in DOMAIN files
    /\ torn
    /\ \E p \in Setters : pc[p] = "headers"
    /\ \E g \in Getters : pc[g] = "read"

\* C18: as long as no write has failed part way, a get of a thread that
\* returns Ok yields the content of some set call that was made and the map
\* of some set call that was made, not necessarily the same call.
C18_NoFabrication ==
    ~torn =>
        \A g \in Getters :
            (pc[g] = "idle" /\ args[g].op = "get" /\ ret[g].kind = "Ok")
                => /\ \E i \in issued : i.content = ret[g].content
                   /\ \E i \in issued : i.hm = ret[g].hm

\* A get that returned Ok with the content of one call and the map of another,
\* a pair that no single call gave.
C18_Witness ==
    /\ ~torn
    /\ \E g \in Getters :
         /\ pc[g] = "idle" /\ args[g].op = "get" /\ ret[g].kind = "Ok"
         /\ \E i \in issued : i.content = ret[g].content
         /\ \A i \in issued : ~(i.content = ret[g].content /\ i.hm = ret[g].hm)

\* C17: a set(u, ..), whatever it returns, leaves every file but the content
\* file and the headers file of u's derived path as it was, removes no
\* directory and makes none but the parent directories of that path; for
\* every URL v whose derived path is not u's, the two files of v and the
\* result of get(v) are what they were.
C17_SetFrame ==
    [][last'.op = "set"
        => LET location == last'.location
               c == ContentFile(location, last'.url)
               h == HeadersFile(location, last'.url)
           IN  /\ \A path \in DOMAIN files \cup DOMAIN files' :
                     path \notin {c, h} => SameFile(path)
               /\ dirs \subseteq dirs'
               /\ dirs' \ dirs \subseteq Prefixes(parent(c))
               /\ \A v \in StoreUrls :
                     url_to_filename(v) # url_to_filename(last'.url)
                        => /\ SameFile(ContentFile(location, v))
                           /\ SameFile(HeadersFile(location, v))
                           /\ HttpCache_get(files', location, v)
                                = HttpCache_get(files, location, v)
       ]_vars

\* A set that returned Ok, on a store that holds the entry of a URL of
\* another derived path.
C17_Witness ==
    /\ last.op = "set"
    /\ last.res.kind = "Ok"
    /\ \E v \in StoreUrls :
         /\ url_to_filename(v) # url_to_filename(last.url)
         /\ HttpCache_get(files, last.location, v).kind = "Ok"

\* Neither directory is the other or inside the other.
Apart(a, b) == a \notin Prefixes(b) /\ b \notin Prefixes(a)

\* C19: the location of a store is fixed once it is constructed; a set made
\* through one store leaves the result of every get of a store whose root is
\* apart from its own as it was; and a get made through one store right after
\* a set that returned Ok made through another store of the same root (one
\* constructed again, or a clone) returns what that set stored.
C19_StoresApart ==
    /\ [][\A h \in Handles : cache[h] # None => cache'[h] = cache[h]]_vars
    /\ [][last'.op = "set"
            => \A h \in Handles :
                 (cache[h] # None /\ Apart(cache[h][1], last'.location))
                    => \A raw \in StoreRawUrls :
                         HttpCache_get(files', cache[h][1], UrlParse(raw))
                            = HttpCache_get(files, cache[h][1], UrlParse(raw))]_vars
    /\ []((GetAfterSet /\ used.now # used.prev
            /\ StripFragment(before[1].url) = StripFragment(last.url))
           => last.res = Result("Ok", before[1].content, before[1].hm))

\* A get through the third store has returned what a set through the first
\* had just stored, while the store of the other root holds an entry for the
\* same URL with another content.
C19_Witness ==
    /\ GetAfterSet
    /\ used = [prev |-> "s1", now |-> "s3"]
    /\ last.res.kind = "Ok"
    /\ cache["s2"] # None
    /\ HttpCache_get(files, RootB, last.url).kind = "Ok"
    /\ HttpCache_get(files, RootB, last.url).content # last.res.content

====
